---- MODULE Spec2Model ----
(***************************************************************************)
(* Model of the Git remote orchestration of server.py (GitTagHandler):     *)
(* the four copies of the remote-URL resolver, the three read handlers     *)
(* (fetch_repo_branches, fetch_repo_tags, fetch_repo_commits) and the      *)
(* bulk tagging handler (bulk_tag_repos).                                  *)
(*                                                                         *)
(* Python strings that the code inspects or builds (URLs, credentials,     *)
(* names) are sequences of one-character strings, so that `in`, replace    *)
(* and quote are computed character by character.                          *)
(***************************************************************************)
EXTENDS Integers, Sequences, FiniteSets, TLC

\* ------------------------------------------------------------------------
\* String literals of the source
\* ------------------------------------------------------------------------
S_https == <<"h", "t", "t", "p", "s", ":", "/", "/">>
S_http == <<"h", "t", "t", "p", ":", "/", "/">>
S_dotgit == <<".", "g", "i", "t">>
S_github == <<"g", "i", "t", "h", "u", "b", ".", "c", "o", "m">>
S_gitlab == <<"g", "i", "t", "l", "a", "b", ".", "c", "o", "m">>
S_visualstudio == <<"v", "i", "s", "u", "a", "l", "s", "t", "u", "d", "i", "o", ".", "c", "o", "m">>
S_git == <<"/", "_", "g", "i", "t", "/">>
S_slash == <<"/">>
S_at == <<"@">>
S_colon == <<":">>
\* 'https://dev.azure.com', the default of config.get('baseUrl', ...)
U_devazure == <<"h", "t", "t", "p", "s", ":", "/", "/", "d", "e", "v", ".", "a", "z", "u", "r", "e", ".", "c", "o", "m">>

\* ------------------------------------------------------------------------
\* Input values (URLs, credentials and names a request or a config can hold)
\* ------------------------------------------------------------------------
\* 'https://acme.visualstudio.com'
U_legacy == <<"h", "t", "t", "p", "s", ":", "/", "/", "a", "c", "m", "e", ".", "v", "i", "s", "u", "a", "l", "s", "t", "u", "d", "i", "o", ".", "c", "o", "m">>
\* 'https://github.com/o/r'
U_github == <<"h", "t", "t", "p", "s", ":", "/", "/", "g", "i", "t", "h", "u", "b", ".", "c", "o", "m", "/", "o", "/", "r">>
\* 'http://h/r.git'
U_httpgit == <<"h", "t", "t", "p", ":", "/", "/", "h", "/", "r", ".", "g", "i", "t">>
\* 'https://gitlab.com/o/r'
U_gitlab == <<"h", "t", "t", "p", "s", ":", "/", "/", "g", "i", "t", "l", "a", "b", ".", "c", "o", "m", "/", "o", "/", "r">>
\* 'https://x.visualstudio.com/r.git'
U_legacygit == <<"h", "t", "t", "p", "s", ":", "/", "/", "x", ".", "v", "i", "s", "u", "a", "l", "s", "t", "u", "d", "i", "o", ".", "c", "o", "m", "/", "r", ".", "g", "i", "t">>
\* 'visualstudiohttp://.com': contains visualstudio.com only once the scheme is removed
U_split == <<"v", "i", "s", "u", "a", "l", "s", "t", "u", "d", "i", "o", "h", "t", "t", "p", ":", "/", "/", ".", "c", "o", "m">>
\* 'git@h:o/r.git'
U_ssh == <<"g", "i", "t", "@", "h", ":", "o", "/", "r", ".", "g", "i", "t">>
\* 'http://tfs.local'
U_onprem == <<"h", "t", "t", "p", ":", "/", "/", "t", "f", "s", ".", "l", "o", "c", "a", "l">>
N_acme == <<"a", "c", "m", "e">>
N_u == <<"u">>
N_t == <<"t">>
\* 'a@b'
N_mail == <<"a", "@", "b">>
\* 'p/w:1'
N_pw == <<"p", "/", "w", ":", "1">>
\* 'svc-a'
N_svca == <<"s", "v", "c", "-", "a">>
N_web == <<"w", "e", "b">>
N_core == <<"c", "o", "r", "e">>

BaseUrls == {U_devazure, U_legacy, U_github, U_httpgit, U_gitlab, U_legacygit, U_split, U_ssh, U_onprem}
Orgs == {<<>>, N_acme}
Usernames == {<<>>, N_u, N_mail}
Tokens == {<<>>, N_t, N_pw}
RepoNames == {N_svca, N_web}
ProjectNames == {N_core}

\* ------------------------------------------------------------------------
\* Python string operations used by the resolver
\* ------------------------------------------------------------------------
\* sub in s
Contains(s, sub) ==
  \E i \in 1..(Len(s) - Len(sub) + 1) : SubSeq(s, i, i + Len(sub) - 1) = sub

\* s.replace(old, ''): every non-overlapping occurrence, left to right
RECURSIVE Remove(_, _)
Remove(s, old) ==
  IF Len(s) < Len(old) THEN s
  ELSE IF SubSeq(s, 1, Len(old)) = old
       THEN Remove(SubSeq(s, Len(old) + 1, Len(s)), old)
       ELSE <<Head(s)>> \o Remove(Tail(s), old)

\* The characters urllib.parse.quote never escapes (letters, digits, "_.-~")
AlwaysSafe ==
  {"a", "b", "c", "d", "e", "f", "g", "h", "i", "j", "k", "l", "m", "n", "o", "p", "q",
   "r", "s", "t", "u", "v", "w", "x", "y", "z", "0", "1", "2", "3", "4", "5", "6", "7",
   "8", "9", "_", ".", "-", "~"}

\* %XX of the characters of the inputs that quote(..., safe='') escapes
PercentCode(c) ==
  CASE c = "@" -> <<"%", "4", "0">>
    [] c = ":" -> <<"%", "3", "A">>
    [] c = "/" -> <<"%", "2", "F">>

\* quote(s, safe='')
RECURSIVE Quote(_)
Quote(s) ==
  IF s = <<>> THEN <<>>
  ELSE (IF Head(s) \in AlwaysSafe THEN <<Head(s)>> ELSE PercentCode(Head(s))) \o Quote(Tail(s))

\* ------------------------------------------------------------------------
\* The resolver: pieces that are textually the same in the four copies
\* ------------------------------------------------------------------------
\* Faulty variant: the gitlab.com test is missing
IsFullGitUrlNoGitlab(base_url) ==
  Contains(base_url, S_dotgit) \/ Contains(base_url, S_github)

\* '.git' in base_url or 'github.com' in base_url or 'gitlab.com' in base_url
IsFullGitUrl(base_url) ==
  Contains(base_url, S_dotgit) \/ Contains(base_url, S_github) \/ Contains(base_url, S_gitlab)

\* base_url.replace('https://', '').replace('http://', '')
StripScheme(base_url) == Remove(Remove(base_url, S_https), S_http)

\* Faulty variant: token and username swapped around the colon
AuthPartTokenFirst(git_username, git_token) ==
  IF git_token # <<>>
  THEN IF git_username # <<>>
       THEN Quote(git_token) \o S_colon \o Quote(git_username) \o S_at
       ELSE Quote(git_token) \o S_at
  ELSE IF git_username # <<>> THEN Quote(git_username) \o S_at ELSE <<>>

\* auth_part
AuthPart(git_username, git_token) ==
  IF git_token # <<>>
  THEN IF git_username # <<>>
       THEN Quote(git_username) \o S_colon \o Quote(git_token) \o S_at
       ELSE Quote(git_token) \o S_at
  ELSE IF git_username # <<>> THEN Quote(git_username) \o S_at ELSE <<>>

\* The result of a resolver copy: the URL, or the 'organization required' exit.
\* branch names the branch of the if/else chain that produced it.
Resolved(branch, url) == [ok |-> TRUE, branch |-> branch, url |-> url]
OrgRequired == [ok |-> FALSE, branch |-> "org", url |-> <<>>]

\* ------------------------------------------------------------------------
\* The four copies of the resolver
\* ------------------------------------------------------------------------
\* fetch_repo_branches
ResolveBranches(org, git_username, git_token, repo_name, project_name, base_url) ==
  IF IsFullGitUrl(base_url)
  THEN LET base_url_clean == StripScheme(base_url)
           auth_part == AuthPart(git_username, git_token)
       IN Resolved("direct",
                   IF auth_part # <<>> THEN S_https \o auth_part \o base_url_clean ELSE base_url)
  ELSE LET base_url_clean == StripScheme(base_url)
           auth_part == AuthPart(git_username, git_token)
       IN IF Contains(base_url_clean, S_visualstudio)
          THEN IF auth_part # <<>>
               THEN Resolved("legacy", S_https \o auth_part \o base_url_clean \o S_slash
                                        \o project_name \o S_git \o repo_name)
               ELSE Resolved("legacy", S_https \o base_url_clean \o S_slash
                                        \o project_name \o S_git \o repo_name)
          ELSE IF org = <<>>
               THEN OrgRequired
               ELSE IF auth_part # <<>>
                    THEN Resolved("org", S_https \o auth_part \o base_url_clean \o S_slash \o org
                                         \o S_slash \o project_name \o S_git \o repo_name)
                    ELSE Resolved("org", S_https \o org \o S_at \o base_url_clean \o S_slash \o org
                                         \o S_slash \o project_name \o S_git \o repo_name)

\* Faulty variant: this copy alone ends legacy URLs in '.git'
ResolveCommitsDotGit(org, git_username, git_token, repo_name, project_name, base_url) ==
  LET r == ResolveBranches(org, git_username, git_token, repo_name, project_name, base_url)
  IN IF r.ok /\ r.branch = "legacy" THEN Resolved("legacy", r.url \o S_dotgit) ELSE r

\* fetch_repo_commits
ResolveCommits(org, git_username, git_token, repo_name, project_name, base_url) ==
  IF IsFullGitUrl(base_url)
  THEN LET base_url_clean == StripScheme(base_url)
           auth_part == AuthPart(git_username, git_token)
       IN Resolved("direct",
                   IF auth_part # <<>> THEN S_https \o auth_part \o base_url_clean ELSE base_url)
  ELSE LET base_url_clean == StripScheme(base_url)
           auth_part == AuthPart(git_username, git_token)
       IN IF Contains(base_url_clean, S_visualstudio)
          THEN IF auth_part # <<>>
               THEN Resolved("legacy", S_https \o auth_part \o base_url_clean \o S_slash
                                        \o project_name \o S_git \o repo_name)
               ELSE Resolved("legacy", S_https \o base_url_clean \o S_slash
                                        \o project_name \o S_git \o repo_name)
          ELSE IF org = <<>>
               THEN OrgRequired
               ELSE IF auth_part # <<>>
                    THEN Resolved("org", S_https \o auth_part \o base_url_clean \o S_slash \o org
                                         \o S_slash \o project_name \o S_git \o repo_name)
                    ELSE Resolved("org", S_https \o org \o S_at \o base_url_clean \o S_slash \o org
                                         \o S_slash \o project_name \o S_git \o repo_name)

\* Faulty variant: the organization is required only when no credentials exist
ResolveTagsUnlessAuth(org, git_username, git_token, repo_name, project_name, base_url) ==
  IF IsFullGitUrl(base_url)
  THEN LET base_url_clean == StripScheme(base_url)
           auth_part == AuthPart(git_username, git_token)
       IN Resolved("direct",
                   IF auth_part # <<>> THEN S_https \o auth_part \o base_url_clean ELSE base_url)
  ELSE LET base_url_clean == StripScheme(base_url)
           auth_part == AuthPart(git_username, git_token)
       IN IF Contains(base_url_clean, S_visualstudio)
          THEN IF auth_part # <<>>
               THEN Resolved("legacy", S_https \o auth_part \o base_url_clean \o S_slash
                                        \o project_name \o S_git \o repo_name)
               ELSE Resolved("legacy", S_https \o base_url_clean \o S_slash
                                        \o project_name \o S_git \o repo_name)
          ELSE IF org = <<>> /\ auth_part = <<>>
               THEN OrgRequired
               ELSE IF auth_part # <<>>
                    THEN Resolved("org", S_https \o auth_part \o base_url_clean \o S_slash \o org
                                         \o S_slash \o project_name \o S_git \o repo_name)
                    ELSE Resolved("org", S_https \o org \o S_at \o base_url_clean \o S_slash \o org
                                         \o S_slash \o project_name \o S_git \o repo_name)

\* fetch_repo_tags
ResolveTags(org, git_username, git_token, repo_name, project_name, base_url) ==
  IF IsFullGitUrl(base_url)
  THEN LET base_url_clean == StripScheme(base_url)
           auth_part == AuthPart(git_username, git_token)
       IN Resolved("direct",
                   IF auth_part # <<>> THEN S_https \o auth_part \o base_url_clean ELSE base_url)
  ELSE LET base_url_clean == StripScheme(base_url)
           auth_part == AuthPart(git_username, git_token)
       IN IF Contains(base_url_clean, S_visualstudio)
          THEN IF auth_part # <<>>
               THEN Resolved("legacy", S_https \o auth_part \o base_url_clean \o S_slash
                                        \o project_name \o S_git \o repo_name)
               ELSE Resolved("legacy", S_https \o base_url_clean \o S_slash
                                        \o project_name \o S_git \o repo_name)
          ELSE IF org = <<>>
               THEN OrgRequired
               ELSE IF auth_part # <<>>
                    THEN Resolved("org", S_https \o auth_part \o base_url_clean \o S_slash \o org
                                         \o S_slash \o project_name \o S_git \o repo_name)
                    ELSE Resolved("org", S_https \o org \o S_at \o base_url_clean \o S_slash \o org
                                         \o S_slash \o project_name \o S_git \o repo_name)

\* Faulty variant: a full Git URL without credentials gets the organization as userinfo
ResolveBulkOrgFallback(org, git_username, git_token, repo_name, project_name, base_url) ==
  IF IsFullGitUrl(base_url)
  THEN LET base_url_clean == StripScheme(base_url)
           auth_part == AuthPart(git_username, git_token)
       IN Resolved("direct",
                   IF auth_part # <<>> THEN S_https \o auth_part \o base_url_clean
                   ELSE IF org # <<>> THEN S_https \o org \o S_at \o base_url_clean ELSE base_url)
  ELSE LET base_url_clean == StripScheme(base_url)
           auth_part == AuthPart(git_username, git_token)
       IN IF Contains(base_url_clean, S_visualstudio)
          THEN IF auth_part # <<>>
               THEN Resolved("legacy", S_https \o auth_part \o base_url_clean \o S_slash
                                        \o project_name \o S_git \o repo_name)
               ELSE Resolved("legacy", S_https \o base_url_clean \o S_slash
                                        \o project_name \o S_git \o repo_name)
          ELSE IF org = <<>>
               THEN OrgRequired
               ELSE IF auth_part # <<>>
                    THEN Resolved("org", S_https \o auth_part \o base_url_clean \o S_slash \o org
                                         \o S_slash \o project_name \o S_git \o repo_name)
                    ELSE Resolved("org", S_https \o org \o S_at \o base_url_clean \o S_slash \o org
                                         \o S_slash \o project_name \o S_git \o repo_name)

\* bulk_tag_repos, one target
ResolveBulk(org, git_username, git_token, repo_name, project_name, base_url) ==
  IF IsFullGitUrl(base_url)
  THEN LET base_url_clean == StripScheme(base_url)
           auth_part == AuthPart(git_username, git_token)
       IN Resolved("direct",
                   IF auth_part # <<>> THEN S_https \o auth_part \o base_url_clean ELSE base_url)
  ELSE LET base_url_clean == StripScheme(base_url)
           auth_part == AuthPart(git_username, git_token)
       IN IF Contains(base_url_clean, S_visualstudio)
          THEN IF auth_part # <<>>
               THEN Resolved("legacy", S_https \o auth_part \o base_url_clean \o S_slash
                                        \o project_name \o S_git \o repo_name)
               ELSE Resolved("legacy", S_https \o base_url_clean \o S_slash
                                        \o project_name \o S_git \o repo_name)
          ELSE IF org = <<>>
               THEN OrgRequired
               ELSE IF auth_part # <<>>
                    THEN Resolved("org", S_https \o auth_part \o base_url_clean \o S_slash \o org
                                         \o S_slash \o project_name \o S_git \o repo_name)
                    ELSE Resolved("org", S_https \o org \o S_at \o base_url_clean \o S_slash \o org
                                         \o S_slash \o project_name \o S_git \o repo_name)

\* ------------------------------------------------------------------------
\* State
\* ------------------------------------------------------------------------
VARIABLES
  op,          \* the handler serving the current request
  pc,          \* its position
  config,      \* the configuration this request reads
  req,         \* the request's parameters
  loc,         \* repo_name, project_name, base_url of the handler (of the current target)
  res,         \* what the resolver produced for loc
  idx,         \* bulk_tag_repos: position of repo_info in repos
  results,     \* bulk_tag_repos: results
  temp_dir,    \* the directory mkdtemp returned, 0 before
  workspaces,  \* the temporary directories that exist on disk
  proc,        \* the last git subprocess outcome
  log,         \* the git invocations of this request, in order
  pending,     \* how the try block was left, while its finally clause runs
  responses,   \* the status lines and bodies sent for this request, in order
  remote,      \* per repository: whether the remote holds a tag of the requested name
  local_tag,   \* whether the clone in the workspace holds a tag of that name
  healthy,     \* whether git and the remotes answer without faults in this run
  files,          \* the two configuration files in the working directory
  _config_cache,  \* GitTagHandler._config_cache: the parsed configuration, None before
  _config_mtime,  \* GitTagHandler._config_mtime: the mtime seen by the load that set the cache
  _config_file,   \* GitTagHandler._config_file: the file name that load read
  call,           \* history: what the latest get_config call saw, did and returned
  last_loaded     \* history: the value parsed by the latest load that succeeded

\* The configuration files, the cache of get_config and its history
cachevars == <<files, _config_cache, _config_mtime, _config_file, call, last_loaded>>

\* The state of the request handlers
handlervars == <<op, pc, config, req, loc, res, idx, results, temp_dir, workspaces, proc, log,
                 pending, responses, remote, local_tag, healthy>>

vars == <<op, pc, config, req, loc, res, idx, results, temp_dir, workspaces, proc, log,
          pending, responses, remote, local_tag, healthy, cachevars>>

\* The remotes as far as the handlers can tell them apart: one per repository name
NoTags == [r \in RepoNames |-> FALSE]

\* ------------------------------------------------------------------------
\* The configuration files and what the two parsers make of them
\* ------------------------------------------------------------------------
\* The largest modification time a file is given
MaxMtime == 2

\* get_config looks for these two names in the working directory
ConfigFiles == {"config.json5", "config.json"}

\* Python's None, in the shape of a parsed configuration
None == [top |-> "None", repositories |-> "None"]

\* A parser that raised instead of returning a value
ParseError == [top |-> "raised", repositories |-> "raised"]

\* The texts a configuration file holds, by name:
\*   T_json      {"organization": "acme", "repositories": ["web"]}
\*   T_json_two  {"organization": "acme", "repositories": ["web", "api"]}
\*   T_json5     { // comment
\*                 organization: "acme", repositories: ["web",], }
\*   T_broken    {"organization": "acme", "repositories": ["web"
\*   T_null      {"organization": "acme", "repositories": null}
\*   T_array     ["web"]
ConfigTexts == {"T_json", "T_json_two", "T_json5", "T_broken", "T_null", "T_array"}

\* json.loads: the value of a JSON text; comments, unquoted keys, trailing commas
\* and a truncated text raise
json_loads(content) ==
  CASE content = "T_json" -> [top |-> "dict", repositories |-> "[web]"]
    [] content = "T_json_two" -> [top |-> "dict", repositories |-> "[web, api]"]
    [] content = "T_null" -> [top |-> "dict", repositories |-> "null"]
    [] content = "T_array" -> [top |-> "list", repositories |-> "absent"]
    [] OTHER -> ParseError

\* parse_json5 strips the comments, quotes the bare keys and drops the trailing
\* commas, then hands the text to json.loads; a text that is JSON already passes
\* through unchanged
parse_json5(content) ==
  json_loads(IF content = "T_json5" THEN "T_json" ELSE content)

\* len(cls._config_cache.get('repositories', [])) in the success message: a
\* top-level value that is no dict has no get, and null has no len
SummaryRaises(value) ==
  value.top # "dict" \/ value.repositories = "null"

\* A name that is not in the working directory
Absent == [exists |-> FALSE, mtime |-> 0, content |-> ""]

\* 'config.json5' if os.path.exists('config.json5') else 'config.json'
ChosenFile(fs) ==
  IF fs["config.json5"].exists THEN "config.json5" ELSE "config.json"

\* The three class attributes, taken together
Cache == [value |-> _config_cache, mtime |-> _config_mtime, file |-> _config_file]

\* The class attributes as the class body sets them
EmptyCache == [value |-> None, mtime |-> 0, file |-> "None"]

\* The condition under which get_config loads the file
ReloadNeeded(cache, config_file, current_mtime) ==
  \/ cache.value = None
  \/ cache.file # config_file
  \/ current_mtime > cache.mtime

NoCall == [kind |-> "none", after |-> "none", returned |-> None, before |-> EmptyCache,
           file |-> "None", mtime |-> 0, touched |-> FALSE]

\* Nothing loaded yet and no configuration file written yet
ConfigUnloaded ==
  /\ files = [f \in ConfigFiles |-> Absent]
  /\ _config_cache = None
  /\ _config_mtime = 0
  /\ _config_file = "None"
  /\ call = NoCall
  /\ last_loaded = None

NoLoc == [repo_name |-> <<>>, project_name |-> <<>>, base_url |-> <<>>]
NoRes == [ok |-> FALSE, branch |-> "none", url |-> <<>>]
NoProc == [cmd |-> "none", outcome |-> "none", stderr |-> "", stdout |-> <<>>]
NoReq == [hasRepo |-> FALSE, repo |-> <<>>, hasProject |-> FALSE, project |-> <<>>,
          hasBaseUrl |-> FALSE, baseUrl |-> <<>>, branch |-> "", tag |-> "", targets |-> <<>>]
NoConfig == [loaded |-> FALSE, organization |-> <<>>, hasBaseUrl |-> FALSE, baseUrl |-> <<>>,
             gitUsername |-> <<>>, gitToken |-> <<>>]

\* query_params.get('project', [repo_name])[0]; repo_info.get('project', repo_name)
ProjectName(hasProject, project, repo_name) == IF hasProject THEN project ELSE repo_name

\* config.get('baseUrl', 'https://dev.azure.com')
DefaultBaseUrl(cfg) == IF cfg.hasBaseUrl THEN cfg.baseUrl ELSE U_devazure

\* query_params.get('baseUrl', [default_base_url])[0]; repo_info.get('baseUrl', default_base_url)
EffectiveBaseUrl(hasBaseUrl, baseUrl, default_base_url) ==
  IF hasBaseUrl THEN baseUrl ELSE default_base_url

\* The locals a handler derives from one repository reference r and the config
Locals(r, cfg) ==
  [repo_name |-> r.repo,
   project_name |-> ProjectName(r.hasProject, r.project, r.repo),
   base_url |-> EffectiveBaseUrl(r.hasBaseUrl, r.baseUrl, DefaultBaseUrl(cfg))]

\* ------------------------------------------------------------------------
\* The resolver as a pure function: inputs drawn by InitResolve, one action
\* per copy applying it
\* ------------------------------------------------------------------------
ResolverConfigs ==
  [loaded : {TRUE}, organization : Orgs, hasBaseUrl : {TRUE}, baseUrl : {U_devazure, U_legacy, U_github},
   gitUsername : Usernames, gitToken : Tokens]
    \cup [loaded : {TRUE}, organization : Orgs, hasBaseUrl : {FALSE}, baseUrl : {<<>>},
          gitUsername : Usernames, gitToken : Tokens]

ResolverRequests ==
  {[hasRepo |-> TRUE, repo |-> r, hasProject |-> p # <<>>, project |-> p,
    hasBaseUrl |-> b[1], baseUrl |-> b[2], branch |-> "", tag |-> "", targets |-> <<>>] :
     r \in RepoNames, p \in ProjectNames \cup {<<>>},
     b \in ({TRUE} \X BaseUrls) \cup {<<FALSE, <<>>>>}}

InitResolve ==
  /\ op \in {"branches", "commits", "tags", "bulk"}
  /\ pc = "resolve"
  /\ config \in ResolverConfigs
  /\ req \in ResolverRequests
  /\ loc = NoLoc
  /\ res = NoRes
  /\ idx = 0
  /\ results = <<>>
  /\ temp_dir = 0
  /\ workspaces = {}
  /\ proc = NoProc
  /\ log = <<>>
  /\ pending = "none"
  /\ responses = <<>>
  /\ remote = NoTags
  /\ local_tag = FALSE
  /\ healthy = TRUE
  /\ ConfigUnloaded

ApplyTo(l, cfg, which) ==
  CASE which = "branches" ->
         ResolveBranches(cfg.organization, cfg.gitUsername, cfg.gitToken,
                         l.repo_name, l.project_name, l.base_url)
    [] which = "commits" ->
         ResolveCommits(cfg.organization, cfg.gitUsername, cfg.gitToken,
                        l.repo_name, l.project_name, l.base_url)
    [] which = "tags" ->
         ResolveTags(cfg.organization, cfg.gitUsername, cfg.gitToken,
                     l.repo_name, l.project_name, l.base_url)
    [] which = "bulk" ->
         ResolveBulk(cfg.organization, cfg.gitUsername, cfg.gitToken,
                     l.repo_name, l.project_name, l.base_url)

ApplyResolver(which) ==
  /\ pc = "resolve"
  /\ op = which
  /\ loc' = Locals(req, config)
  /\ res' = ApplyTo(loc', config, which)
  /\ pc' = "resolved"
  /\ UNCHANGED <<op, config, req, idx, results, temp_dir, workspaces, proc, log, pending,
                 responses, remote, local_tag, healthy, cachevars>>

ApplyBranches == ApplyResolver("branches")
ApplyCommits == ApplyResolver("commits")
ApplyTags == ApplyResolver("tags")
ApplyBulk == ApplyResolver("bulk")

NextResolve == ApplyBranches \/ ApplyCommits \/ ApplyTags \/ ApplyBulk

SpecResolve == InitResolve /\ [][NextResolve]_vars

\* ------------------------------------------------------------------------
\* Requests, configurations and git outcomes of the handlers
\* ------------------------------------------------------------------------
MaxTargets == 2

\* subprocess.run(..., timeout=...) of each invocation, in seconds
LsRemoteTimeout == 30
CommitsCloneTimeout == 60
LogTimeout == 10
BulkCloneTimeout == 60
PushTimeout == 30

\* What get_config (fetch_repo_tags: its own load) hands to the handler
HandlerConfigs ==
  { NoConfig,
    [loaded |-> TRUE, organization |-> N_acme, hasBaseUrl |-> FALSE, baseUrl |-> <<>>,
     gitUsername |-> N_u, gitToken |-> N_t],
    [loaded |-> TRUE, organization |-> <<>>, hasBaseUrl |-> TRUE, baseUrl |-> U_devazure,
     gitUsername |-> <<>>, gitToken |-> <<>>] }

\* The query strings of the read handlers
ReadRequests ==
  { NoReq,
    [NoReq EXCEPT !.hasRepo = TRUE, !.repo = N_svca],
    [NoReq EXCEPT !.hasRepo = TRUE, !.repo = N_svca, !.hasProject = TRUE, !.project = N_core,
                  !.hasBaseUrl = TRUE, !.baseUrl = U_github] }

\* The entries of 'repos' in a bulk-tag body
Targets ==
  { [repo |-> N_svca, hasProject |-> TRUE, project |-> N_core, hasBaseUrl |-> FALSE,
     baseUrl |-> <<>>],
    [repo |-> N_web, hasProject |-> FALSE, project |-> <<>>, hasBaseUrl |-> TRUE,
     baseUrl |-> U_github] }

TargetLists == UNION {[1..n -> Targets] : n \in 0..MaxTargets}

BulkRequests ==
  {[NoReq EXCEPT !.branch = b, !.tag = t, !.targets = ts] :
     b \in {"", "main"}, t \in {"", "v1"}, ts \in TargetLists}

StderrTexts == {"fatal: repository not found", "fatal: Authentication failed"}
GitMissing == "[Errno 2] No such file or directory: 'git'"
NoSpace == "[Errno 28] No space left on device"

\* subprocess.run called without timeout=
NoTimeout == <<>>

\* What subprocess.run can do: return with exit status zero or non-zero, raise
\* TimeoutExpired (only when a timeout was passed), raise another exception, or,
\* without a timeout, block for as long as the child runs
Outcomes(timeout) ==
  {"ok", "nonzero", "error"} \cup (IF timeout # NoTimeout THEN {"timeout"} ELSE {"blocks"})

\* Whether git can exit zero, given the tag in the clone and on the remote:
\* 'git tag -d' needs the tag in the clone, 'git push --delete' needs it on the
\* remote, 'git tag' needs it absent from the clone
CanExitZero(cmd, local, onRemote) ==
  CASE cmd = "tag -d" -> local
    [] cmd = "push --delete" -> onRemote
    [] cmd = "tag" -> ~local
    [] OTHER -> TRUE

\* How one git invocation can end: without faults its exit status follows from
\* the state of the tag; with faults subprocess.run can end in any of Outcomes,
\* exit status zero only where the state of the tag allows it
GitOutcomes(timeout, canExitZero, faultless) ==
  IF faultless
  THEN IF canExitZero THEN {"ok"} ELSE {"nonzero"}
  ELSE {o \in Outcomes(timeout) : o = "ok" => canExitZero}

\* Faulty variant: the remote keeps the tag that 'git push --delete' removed
RemoteAfterKeepsTag(cmd, outcome, onRemote) ==
  IF cmd = "push" /\ outcome = "ok" THEN TRUE ELSE onRemote

\* The tag on the remote after a git invocation: removed by a 'git push --delete'
\* that exited zero, put there by a 'git push' that exited zero
RemoteAfter(cmd, outcome, onRemote) ==
  CASE cmd = "push --delete" /\ outcome = "ok" -> FALSE
    [] cmd = "push" /\ outcome = "ok" -> TRUE
    [] OTHER -> onRemote

\* Faulty variant: 'git tag -d' leaves the tag in the clone
LocalAfterDeleteKeeps(cmd, outcome, local, fetched) ==
  CASE cmd = "clone" /\ outcome = "ok" -> fetched
    [] cmd = "tag" /\ outcome = "ok" -> TRUE
    [] OTHER -> local

\* The tag in the clone after a git invocation; fetched tells whether the clone
\* brought the remote's tag along
LocalAfter(cmd, outcome, local, fetched) ==
  CASE cmd = "clone" /\ outcome = "ok" -> fetched
    [] cmd = "tag -d" /\ outcome = "ok" -> FALSE
    [] cmd = "tag" /\ outcome = "ok" -> TRUE
    [] OTHER -> local

NoPending == [kind |-> "none", text |-> ""]
\* Faulty variant: the return after the payload is taken for an exception
ReturnedAsRaised == [kind |-> "Exception", text |-> "return"]
Returned == [kind |-> "return", text |-> ""]
Continued == [kind |-> "continue", text |-> ""]
FellThrough == [kind |-> "end", text |-> ""]
TimeoutExpired == [kind |-> "TimeoutExpired", text |-> ""]
Raised(text) == [kind |-> "Exception", text |-> text]

\* self.send_error(code, message)
SendError(code, message) == [status |-> code, body |-> [message |-> message]]
\* self.send_response(200) ... self.wfile.write(json.dumps(body))
SendJson(body) == [status |-> 200, body |-> body]

\* A completed subprocess as the handler sees it
Proc(cmd, outcome, stderr, stdout) ==
  [cmd |-> cmd, outcome |-> outcome, stderr |-> stderr, stdout |-> stdout]

Logged(l, target, cmd, outcome) == Append(l, [target |-> target, cmd |-> cmd, outcome |-> outcome])

\* tempfile.mkdtemp: a directory that did not exist
Mkdtemp(existing) == CHOOSE d \in 1..(Cardinality(existing) + 1) : d \notin existing

\* Faulty variant: the directory is left behind
RmtreeKeeps(existing, d) == existing

\* shutil.rmtree(temp_dir, ignore_errors=True)
Rmtree(existing, d) == existing \ {d}

\* ------------------------------------------------------------------------
\* Parsing of git's output
\* ------------------------------------------------------------------------
S_refsheads == <<"r", "e", "f", "s", "/", "h", "e", "a", "d", "s", "/">>
S_refstags == <<"r", "e", "f", "s", "/", "t", "a", "g", "s", "/">>
S_commitend == <<"-", "-", "-", "C", "O", "M", "M", "I", "T", "-", "E", "N", "D", "-", "-", "-">>
S_newline == <<"\n">>

\* 'abcdef012\trefs/heads/main\n0123456789\trefs/heads/dev\n'
O_heads == <<"a", "b", "c", "d", "e", "f", "0", "1", "2", "\t", "r", "e", "f", "s", "/", "h", "e", "a", "d", "s", "/", "m", "a", "i", "n", "\n", "0", "1", "2", "3", "4", "5", "6", "7", "8", "9", "\t", "r", "e", "f", "s", "/", "h", "e", "a", "d", "s", "/", "d", "e", "v", "\n">>
\* 'abc12\trefs/heads/x\nrefs/heads/y z\n': a short hash, and a line whose second word is not a ref path
O_headsodd == <<"a", "b", "c", "1", "2", "\t", "r", "e", "f", "s", "/", "h", "e", "a", "d", "s", "/", "x", "\n", "r", "e", "f", "s", "/", "h", "e", "a", "d", "s", "/", "y", " ", "z", "\n">>
\* 'abcdef012\trefs/tags/v1\n'
O_tags == <<"a", "b", "c", "d", "e", "f", "0", "1", "2", "\t", "r", "e", "f", "s", "/", "t", "a", "g", "s", "/", "v", "1", "\n">>
\* 'abcdef012\nabcdef0\nAnn\na@x\n17\nfix\nwhy\n\nmore\n---COMMIT-END---\n0123456789\n0123456\nBob\nb@x\n9\ninit\n\n---COMMIT-END---'
O_log == <<"a", "b", "c", "d", "e", "f", "0", "1", "2", "\n", "a", "b", "c", "d", "e", "f", "0", "\n", "A", "n", "n", "\n", "a", "@", "x", "\n", "1", "7", "\n", "f", "i", "x", "\n", "w", "h", "y", "\n", "\n", "m", "o", "r", "e", "\n", "-", "-", "-", "C", "O", "M", "M", "I", "T", "-", "E", "N", "D", "-", "-", "-", "\n", "0", "1", "2", "3", "4", "5", "6", "7", "8", "9", "\n", "0", "1", "2", "3", "4", "5", "6", "\n", "B", "o", "b", "\n", "b", "@", "x", "\n", "9", "\n", "i", "n", "i", "t", "\n", "\n", "-", "-", "-", "C", "O", "M", "M", "I", "T", "-", "E", "N", "D", "-", "-", "-">>
\* 'abcdef012\nabcdef0\nAnn\n---COMMIT-END---\n0123456789\n0123456\nBob\nb@x\nsoon\ninit\n\n---COMMIT-END---': a record of three fields, and a timestamp that is no number
O_logodd == <<"a", "b", "c", "d", "e", "f", "0", "1", "2", "\n", "a", "b", "c", "d", "e", "f", "0", "\n", "A", "n", "n", "\n", "-", "-", "-", "C", "O", "M", "M", "I", "T", "-", "E", "N", "D", "-", "-", "-", "\n", "0", "1", "2", "3", "4", "5", "6", "7", "8", "9", "\n", "0", "1", "2", "3", "4", "5", "6", "\n", "B", "o", "b", "\n", "b", "@", "x", "\n", "s", "o", "o", "n", "\n", "i", "n", "i", "t", "\n", "\n", "-", "-", "-", "C", "O", "M", "M", "I", "T", "-", "E", "N", "D", "-", "-", "-">>
\* 'abcdef012\nabcdef01\nAnn\na@x\n17\nfix\n\n---COMMIT-END---': git abbreviates the hash to eight characters
O_logabbrev == <<"a", "b", "c", "d", "e", "f", "0", "1", "2", "\n", "a", "b", "c", "d", "e", "f", "0", "1", "\n", "A", "n", "n", "\n", "a", "@", "x", "\n", "1", "7", "\n", "f", "i", "x", "\n", "\n", "-", "-", "-", "C", "O", "M", "M", "I", "T", "-", "E", "N", "D", "-", "-", "-">>
\* 'abcdef012\nabcdef0\nAnn\na@x\n17\n\n\n---COMMIT-END---\n0123456789\n0123456\nBob\nb@x\n9\ninit\n\n---COMMIT-END---': the first commit has an empty message
O_lognosubject == <<"a", "b", "c", "d", "e", "f", "0", "1", "2", "\n", "a", "b", "c", "d", "e", "f", "0", "\n", "A", "n", "n", "\n", "a", "@", "x", "\n", "1", "7", "\n", "\n", "\n", "-", "-", "-", "C", "O", "M", "M", "I", "T", "-", "E", "N", "D", "-", "-", "-", "\n", "0", "1", "2", "3", "4", "5", "6", "7", "8", "9", "\n", "0", "1", "2", "3", "4", "5", "6", "\n", "B", "o", "b", "\n", "b", "@", "x", "\n", "9", "\n", "i", "n", "i", "t", "\n", "\n", "-", "-", "-", "C", "O", "M", "M", "I", "T", "-", "E", "N", "D", "-", "-", "-">>

HeadsOutputs == {<<>>, O_heads, O_headsodd}
TagsOutputs == {<<>>, O_tags}
LogOutputs == {O_log, O_logodd, O_logabbrev, O_lognosubject}

Whitespace == {" ", "\t", "\n", "\r"}

RECURSIVE LStrip(_)
LStrip(s) == IF s # <<>> /\ Head(s) \in Whitespace THEN LStrip(Tail(s)) ELSE s

RECURSIVE RStrip(_)
RStrip(s) ==
  IF s # <<>> /\ s[Len(s)] \in Whitespace THEN RStrip(SubSeq(s, 1, Len(s) - 1)) ELSE s

\* s.strip()
Strip(s) == RStrip(LStrip(s))

\* Position of the first occurrence of sep in s, 0 if there is none
Find(s, sep) ==
  IF Contains(s, sep)
  THEN CHOOSE i \in 1..(Len(s) - Len(sep) + 1) :
         /\ SubSeq(s, i, i + Len(sep) - 1) = sep
         /\ \A j \in 1..(i - 1) : SubSeq(s, j, j + Len(sep) - 1) # sep
  ELSE 0

\* s.split(sep)
RECURSIVE Split(_, _)
Split(s, sep) ==
  LET i == Find(s, sep) IN
  IF i = 0 THEN <<s>>
  ELSE <<SubSeq(s, 1, i - 1)>> \o Split(SubSeq(s, i + Len(sep), Len(s)), sep)

\* s.split(): the words between runs of whitespace
RECURSIVE Words(_)
Words(s) ==
  LET t == LStrip(s) IN
  IF t = <<>> THEN <<>>
  ELSE LET n == IF \E i \in 1..Len(t) : t[i] \in Whitespace
                THEN (CHOOSE i \in 1..Len(t) :
                        t[i] \in Whitespace /\ \A j \in 1..(i - 1) : t[j] \notin Whitespace) - 1
                ELSE Len(t)
       IN <<SubSeq(t, 1, n)>> \o Words(SubSeq(t, n + 1, Len(t)))

\* sep.join(parts)
RECURSIVE Join(_, _)
Join(parts, sep) ==
  IF parts = <<>> THEN <<>>
  ELSE IF Len(parts) = 1 THEN parts[1]
  ELSE parts[1] \o sep \o Join(Tail(parts), sep)

\* s[:n]
Prefix(s, n) == SubSeq(s, 1, IF Len(s) < n THEN Len(s) ELSE n)

Digits == <<"0", "1", "2", "3", "4", "5", "6", "7", "8", "9">>
DigitValue(c) == (CHOOSE k \in 1..10 : Digits[k] = c) - 1
IsNumber(s) == s # <<>> /\ \A i \in 1..Len(s) : \E k \in 1..10 : Digits[k] = s[i]

\* int(s) of a string of decimal digits
RECURSIVE IntOf(_)
IntOf(s) == IF s = <<>> THEN 0 ELSE 10 * IntOf(SubSeq(s, 1, Len(s) - 1)) + DigitValue(s[Len(s)])

Parsed(items) == [ok |-> TRUE, items |-> items, text |-> ""]
ParseFailed(text) == [ok |-> FALSE, items |-> <<>>, text |-> text]

\* fetch_repo_branches: the loop over result.stdout.strip().split('\n')
RECURSIVE BranchLines(_, _)
BranchLines(lines, branches) ==
  IF lines = <<>> THEN Parsed(branches)
  ELSE LET line == Head(lines) IN
       IF line # <<>> /\ Contains(line, S_refsheads)
       THEN LET parts == Words(line) IN
            IF Len(parts) >= 2
            THEN LET commit_hash == parts[1]
                     pieces == Split(parts[2], S_refsheads)
                 IN IF Len(pieces) < 2
                    THEN ParseFailed("list index out of range")
                    ELSE BranchLines(Tail(lines),
                                     Append(branches, [name |-> Strip(pieces[2]),
                                                       commit |-> commit_hash,
                                                       shortCommit |-> Prefix(commit_hash, 7)]))
            ELSE BranchLines(Tail(lines), branches)
       ELSE BranchLines(Tail(lines), branches)

ParseBranches(stdout) == BranchLines(Split(Strip(stdout), S_newline), <<>>)

\* fetch_repo_tags: the loop over result.stdout.strip().split('\n')
RECURSIVE TagLines(_, _)
TagLines(lines, tags) ==
  IF lines = <<>> THEN Parsed(tags)
  ELSE LET line == Head(lines) IN
       IF line # <<>> /\ Contains(line, S_refstags)
       THEN LET parts == Words(line) IN
            IF Len(parts) >= 2
            THEN LET commit_hash == parts[1]
                     pieces == Split(parts[2], S_refstags)
                 IN IF Len(pieces) < 2
                    THEN ParseFailed("list index out of range")
                    ELSE TagLines(Tail(lines),
                                  Append(tags, [name |-> Strip(pieces[2]),
                                                commit |-> commit_hash,
                                                shortCommit |-> Prefix(commit_hash, 7)]))
            ELSE TagLines(Tail(lines), tags)
       ELSE TagLines(Tail(lines), tags)

ParseTags(stdout) == TagLines(Split(Strip(stdout), S_newline), <<>>)

\* fetch_repo_commits: the loop over log_result.stdout.split('---COMMIT-END---')
RECURSIVE CommitTexts(_, _)
CommitTexts(commit_texts, commits) ==
  IF commit_texts = <<>> THEN Parsed(commits)
  ELSE LET commit_text == Head(commit_texts) IN
       IF Strip(commit_text) = <<>> THEN CommitTexts(Tail(commit_texts), commits)
       ELSE LET lines == Split(Strip(commit_text), S_newline) IN
            IF Len(lines) >= 6
            THEN IF ~IsNumber(Strip(lines[5]))
                 THEN ParseFailed("invalid literal for int() with base 10")
                 ELSE CommitTexts(Tail(commit_texts),
                        Append(commits,
                               [hash |-> lines[1], shortHash |-> lines[2], author |-> lines[3],
                                email |-> lines[4], timestamp |-> IntOf(Strip(lines[5])),
                                date |-> [localtime |-> IntOf(Strip(lines[5]))],
                                subject |-> lines[6],
                                body |-> IF Len(lines) > 6
                                         THEN Strip(Join(SubSeq(lines, 7, Len(lines)), S_newline))
                                         ELSE <<>>]))
            ELSE CommitTexts(Tail(commit_texts), commits)

ParseCommits(stdout) == CommitTexts(Split(stdout, S_commitend), <<>>)

\* ------------------------------------------------------------------------
\* The handlers
\* ------------------------------------------------------------------------
Init ==
  /\ op = "none"
  /\ pc = "idle"
  /\ config = NoConfig
  /\ req = NoReq
  /\ loc = NoLoc
  /\ res = NoRes
  /\ idx = 0
  /\ results = <<>>
  /\ temp_dir = 0
  /\ workspaces = {}
  /\ proc = NoProc
  /\ log = <<>>
  /\ pending = NoPending
  /\ responses = <<>>
  /\ remote = NoTags
  /\ local_tag = FALSE
  /\ healthy \in BOOLEAN
  /\ ConfigUnloaded

\* A request arrives: the handler starts with fresh locals and nothing sent
Dispatch(handler, request, cfg) ==
  /\ pc = "idle"
  /\ op' = handler
  /\ pc' = "parse"
  /\ req' = request
  /\ config' = cfg
  /\ UNCHANGED <<loc, res, idx, results, temp_dir, workspaces, proc, log, pending, responses>>
  /\ UNCHANGED <<remote, local_tag, healthy, cachevars>>

do_GET ==
  \E handler \in {"branches", "commits", "tags"}, request \in ReadRequests, cfg \in HandlerConfigs :
    Dispatch(handler, request, cfg)

do_POST ==
  \E request \in BulkRequests, cfg \in HandlerConfigs : Dispatch("bulk", request, cfg)

\* Faulty variant: the organization error answered inside a 200 payload
OrgRequiredAsPayload == SendJson([error |-> "organization required for dev.azure.com URLs"])

\* if not org: self.send_error(400, ...) of the read handlers
OrgRequiredResponse == SendError(400, "organization required for dev.azure.com URLs")

\* The head of a read handler: parameters, config, resolver; each early
\* return sends its error and ends the handler
ReadParse(handler, loadFailure) ==
  /\ op = handler
  /\ pc = "parse"
  /\ IF ~req.hasRepo
     THEN /\ responses' = Append(responses, SendError(400, "Missing required parameter: repo"))
          /\ pc' = "done"
          /\ UNCHANGED <<loc, res>>
     ELSE IF ~config.loaded
     THEN /\ responses' = Append(responses, SendError(500, loadFailure))
          /\ pc' = "done"
          /\ UNCHANGED <<loc, res>>
     ELSE /\ loc' = Locals(req, config)
          /\ res' = ApplyTo(loc', config, handler)
          /\ IF res'.ok
             THEN pc' = "mkdtemp" /\ UNCHANGED responses
             ELSE /\ responses' = Append(responses, OrgRequiredResponse)
                  /\ pc' = "done"
  /\ UNCHANGED <<op, config, req, idx, results, temp_dir, workspaces, proc, log, pending>>
  /\ UNCHANGED <<remote, local_tag, healthy, cachevars>>

\* temp_dir = tempfile.mkdtemp(...) of a read handler; an OSError reaches the
\* handler's except Exception
ReadMkdtemp(handler) ==
  /\ op = handler
  /\ pc = "mkdtemp"
  /\ \/ /\ temp_dir' = Mkdtemp(workspaces)
        /\ workspaces' = workspaces \cup {temp_dir'}
        /\ pc' = "git"
        /\ UNCHANGED responses
     \/ /\ responses' = Append(responses, SendError(500, "Internal Server Error: " \o NoSpace))
        /\ pc' = "done"
        /\ UNCHANGED <<temp_dir, workspaces>>
  /\ UNCHANGED <<op, config, req, loc, res, idx, results, proc, log, pending>>
  /\ UNCHANGED <<remote, local_tag, healthy, cachevars>>

\* Faulty variant: the timeout falls into the handler's except Exception
TimeoutAsServerError == SendError(500, "Internal Server Error: timed out")

\* except subprocess.TimeoutExpired of the read handlers
TimeoutResponse == SendError(504, "Git operation timed out")

\* except Exception of the handlers
ExceptionResponse(text) == SendError(500, "Internal Server Error: " \o text)

\* The finally clause of a read handler, then the except clause of the
\* exception that is on its way out, if any
ReadFinally(handler) ==
  /\ op = handler
  /\ pc = "finally"
  /\ workspaces' = Rmtree(workspaces, temp_dir)
  /\ responses' = CASE pending.kind = "TimeoutExpired" -> Append(responses, TimeoutResponse)
                    [] pending.kind = "Exception" -> Append(responses, ExceptionResponse(pending.text))
                    [] OTHER -> responses
  /\ pending' = NoPending
  /\ pc' = "done"
  /\ UNCHANGED <<op, config, req, loc, res, idx, results, temp_dir, proc, log>>
  /\ UNCHANGED <<remote, local_tag, healthy, cachevars>>

BranchesErrorResponse(stderr) == SendJson([branches |-> <<>>, error |-> stderr])
TagsErrorResponse(stderr) == SendJson([tags |-> <<>>, error |-> stderr])
CloneErrorResponse(stderr) == SendJson([commits |-> <<>>, error |-> stderr])
\* Faulty variant: a failed git log answered as a server error
LogErrorAsServerError(stderr) == SendError(500, "Internal Server Error: " \o stderr)
LogErrorResponse(stderr) == SendJson([commits |-> <<>>, error |-> stderr])

fetch_repo_branches_parse == ReadParse("branches", "Failed to load config")
fetch_repo_branches_mkdtemp == ReadMkdtemp("branches")

\* git ls-remote --heads --refs, and what the try block does with its result
fetch_repo_branches_ls_remote ==
  /\ op = "branches"
  /\ pc = "git"
  /\ \E outcome \in GitOutcomes(<<LsRemoteTimeout>>, TRUE, healthy), stderr \in StderrTexts \cup {""}, stdout \in HeadsOutputs :
       /\ outcome = "nonzero" \/ stderr = ""
       /\ outcome = "ok" \/ stdout = <<>>
       /\ proc' = Proc("ls-remote --heads", outcome, stderr, stdout)
       /\ log' = Logged(log, 0, "ls-remote --heads", outcome)
       /\ CASE outcome = "nonzero" ->
                 /\ responses' = Append(responses, BranchesErrorResponse(stderr))
                 /\ pending' = Returned
            [] outcome = "timeout" -> pending' = TimeoutExpired /\ UNCHANGED responses
            [] outcome = "error" -> pending' = Raised(GitMissing) /\ UNCHANGED responses
            [] outcome = "ok" ->
                 LET parsed == ParseBranches(stdout) IN
                 IF parsed.ok
                 THEN /\ responses' = Append(responses, SendJson([branches |-> parsed.items]))
                      /\ pending' = FellThrough
                 ELSE pending' = Raised(parsed.text) /\ UNCHANGED responses
  /\ pc' = "finally"
  /\ UNCHANGED <<op, config, req, loc, res, idx, results, temp_dir, workspaces>>
  /\ UNCHANGED <<remote, local_tag, healthy, cachevars>>

fetch_repo_branches_finally == ReadFinally("branches")

fetch_repo_tags_parse == ReadParse("tags", "Error loading config")
fetch_repo_tags_mkdtemp == ReadMkdtemp("tags")

\* git ls-remote --tags --refs, and what the try block does with its result
fetch_repo_tags_ls_remote ==
  /\ op = "tags"
  /\ pc = "git"
  /\ \E outcome \in GitOutcomes(<<LsRemoteTimeout>>, TRUE, healthy), stderr \in StderrTexts \cup {""}, stdout \in TagsOutputs :
       /\ outcome = "nonzero" \/ stderr = ""
       /\ outcome = "ok" \/ stdout = <<>>
       /\ proc' = Proc("ls-remote --tags", outcome, stderr, stdout)
       /\ log' = Logged(log, 0, "ls-remote --tags", outcome)
       /\ CASE outcome = "nonzero" ->
                 /\ responses' = Append(responses, TagsErrorResponse(stderr))
                 /\ pending' = Returned
            [] outcome = "timeout" -> pending' = TimeoutExpired /\ UNCHANGED responses
            [] outcome = "error" -> pending' = Raised(GitMissing) /\ UNCHANGED responses
            [] outcome = "ok" ->
                 LET parsed == ParseTags(stdout) IN
                 IF parsed.ok
                 THEN /\ responses' = Append(responses, SendJson([tags |-> parsed.items]))
                      /\ pending' = FellThrough
                 ELSE pending' = Raised(parsed.text) /\ UNCHANGED responses
  /\ pc' = "finally"
  /\ UNCHANGED <<op, config, req, loc, res, idx, results, temp_dir, workspaces>>
  /\ UNCHANGED <<remote, local_tag, healthy, cachevars>>

fetch_repo_tags_finally == ReadFinally("tags")

fetch_repo_commits_parse == ReadParse("commits", "Failed to load config")
fetch_repo_commits_mkdtemp == ReadMkdtemp("commits")

\* git clone --depth limit --single-branch --branch branch
fetch_repo_commits_clone ==
  /\ op = "commits"
  /\ pc = "git"
  /\ \E outcome \in GitOutcomes(<<CommitsCloneTimeout>>, TRUE, healthy), stderr \in StderrTexts \cup {""} :
       /\ outcome = "nonzero" \/ stderr = ""
       /\ proc' = Proc("clone", outcome, stderr, <<>>)
       /\ log' = Logged(log, 0, "clone", outcome)
       /\ CASE outcome = "nonzero" ->
                 /\ responses' = Append(responses, CloneErrorResponse(stderr))
                 /\ pending' = Returned
                 /\ pc' = "finally"
            [] outcome = "timeout" ->
                 pending' = TimeoutExpired /\ pc' = "finally" /\ UNCHANGED responses
            [] outcome = "error" ->
                 pending' = Raised(GitMissing) /\ pc' = "finally" /\ UNCHANGED responses
            [] outcome = "ok" -> pc' = "log" /\ UNCHANGED <<responses, pending>>
  /\ UNCHANGED <<op, config, req, loc, res, idx, results, temp_dir, workspaces>>
  /\ UNCHANGED <<remote, local_tag, healthy, cachevars>>

\* git log -limit --pretty=format:..., and the parsing of its output
fetch_repo_commits_log ==
  /\ op = "commits"
  /\ pc = "log"
  /\ \E outcome \in GitOutcomes(<<LogTimeout>>, TRUE, healthy), stderr \in StderrTexts \cup {""}, stdout \in LogOutputs \cup {<<>>} :
       /\ outcome = "nonzero" \/ stderr = ""
       /\ (outcome = "ok") <=> (stdout # <<>>)
       /\ proc' = Proc("log", outcome, stderr, stdout)
       /\ log' = Logged(log, 0, "log", outcome)
       /\ CASE outcome = "nonzero" ->
                 /\ responses' = Append(responses, LogErrorResponse(stderr))
                 /\ pending' = Returned
            [] outcome = "timeout" -> pending' = TimeoutExpired /\ UNCHANGED responses
            [] outcome = "error" -> pending' = Raised(GitMissing) /\ UNCHANGED responses
            [] outcome = "ok" ->
                 LET parsed == ParseCommits(stdout) IN
                 IF parsed.ok
                 THEN /\ responses' = Append(responses,
                                             SendJson([commits |-> parsed.items, branch |-> "dev"]))
                      /\ pending' = FellThrough
                 ELSE pending' = Raised(parsed.text) /\ UNCHANGED responses
  /\ pc' = "finally"
  /\ UNCHANGED <<op, config, req, loc, res, idx, results, temp_dir, workspaces>>
  /\ UNCHANGED <<remote, local_tag, healthy, cachevars>>

fetch_repo_commits_finally == ReadFinally("commits")

\* ------------------------------------------------------------------------
\* bulk_tag_repos
\* ------------------------------------------------------------------------
\* The entries appended to results
OrgRequiredEntry(repo_name) ==
  [repo |-> repo_name, success |-> FALSE,
   error |-> <<"organization required for dev.azure.com URLs">>]
CloneFailedEntry(repo_name, branch_name, stderr) ==
  [repo |-> repo_name, success |-> FALSE,
   error |-> <<"Failed to clone branch ", branch_name, ": ", stderr>>]
TagFailedEntry(repo_name, stderr) ==
  [repo |-> repo_name, success |-> FALSE, error |-> <<"Failed to create tag: ", stderr>>]
PushFailedEntry(repo_name, stderr) ==
  [repo |-> repo_name, success |-> FALSE, error |-> <<"Failed to push tag: ", stderr>>]
SuccessEntry(repo_name, branch_name, tag_name) ==
  [repo |-> repo_name, success |-> TRUE,
   message |-> <<"Successfully tagged ", branch_name, " with ", tag_name>>]
\* except subprocess.TimeoutExpired of the loop body
TimeoutEntry(repo_name) ==
  [repo |-> repo_name, success |-> FALSE, error |-> <<"Operation timed out">>]
ExceptionEntry(repo_name, text) ==
  [repo |-> repo_name, success |-> FALSE, error |-> <<text>>]

\* results.append(entry)
Record(rs, entry) == Append(rs, entry)

\* Faulty variant: the exception is swallowed without an entry
ExceptionOnlyLogged(rs, repo_name, text) == rs

\* except Exception as e: results.append({... 'error': str(e)})
RecordException(rs, repo_name, text) == Record(rs, ExceptionEntry(repo_name, text))

\* except subprocess.TimeoutExpired: results.append({... 'error': 'Operation timed out'})
RecordTimeout(rs, repo_name) == Record(rs, TimeoutEntry(repo_name))

\* The head of the handler: body, parameters, config
bulk_tag_repos_parse ==
  /\ op = "bulk"
  /\ pc = "parse"
  /\ IF req.branch = "" \/ req.tag = "" \/ req.targets = <<>>
     THEN /\ responses' = Append(responses,
                                 SendError(400, "Missing required parameters: branch, tag, repos"))
          /\ pc' = "done"
          /\ UNCHANGED <<idx, results>>
     ELSE IF ~config.loaded
     THEN /\ responses' = Append(responses, SendError(500, "Failed to load config"))
          /\ pc' = "done"
          /\ UNCHANGED <<idx, results>>
     ELSE /\ results' = <<>>
          /\ idx' = 1
          /\ pc' = "loop"
          /\ UNCHANGED responses
  /\ UNCHANGED <<op, config, req, loc, res, temp_dir, workspaces, proc, log, pending>>
  /\ UNCHANGED <<remote, local_tag, healthy, cachevars>>

\* for repo_info in repos: the next target and its URL; once the list is
\* exhausted, the response with the results
bulk_tag_repos_next_repo ==
  /\ op = "bulk"
  /\ pc = "loop"
  /\ IF idx > Len(req.targets)
     THEN /\ responses' = Append(responses, SendJson([results |-> results]))
          /\ pc' = "done"
          /\ UNCHANGED <<loc, res, idx, results>>
     ELSE /\ loc' = Locals(req.targets[idx], config)
          /\ res' = ApplyTo(loc', config, "bulk")
          /\ IF res'.ok
             THEN pc' = "mkdtemp" /\ UNCHANGED <<idx, results>>
             ELSE /\ results' = Record(results, OrgRequiredEntry(loc'.repo_name))
                  /\ idx' = idx + 1
                  /\ pc' = "loop"
          /\ UNCHANGED responses
  /\ UNCHANGED <<op, config, req, temp_dir, workspaces, proc, log, pending>>
  /\ UNCHANGED <<remote, local_tag, healthy, cachevars>>

\* temp_dir = tempfile.mkdtemp(...), outside the loop body's try: an OSError
\* reaches the handler's except Exception
bulk_tag_repos_mkdtemp ==
  /\ op = "bulk"
  /\ pc = "mkdtemp"
  /\ \/ /\ temp_dir' = Mkdtemp(workspaces)
        /\ workspaces' = workspaces \cup {temp_dir'}
        /\ pc' = "clone"
        /\ UNCHANGED responses
     \/ /\ responses' = Append(responses, ExceptionResponse(NoSpace))
        /\ pc' = "done"
        /\ UNCHANGED <<temp_dir, workspaces>>
  /\ UNCHANGED <<op, config, req, loc, res, idx, results, proc, log, pending>>
  /\ UNCHANGED <<remote, local_tag, healthy, cachevars>>

\* What git prints when a step of the loop body exits non-zero
BulkStderr(cmd) ==
  CASE cmd = "clone" -> "fatal: Remote branch main not found in upstream origin"
    [] cmd = "tag -d" -> "error: tag 'v1' not found."
    [] cmd = "push --delete" -> "error: unable to delete 'v1': remote ref does not exist"
    [] cmd = "tag" -> "fatal: tag 'v1' already exists"
    [] cmd = "push" -> "error: failed to push some refs"

\* One git invocation of the loop body and the statements up to the next one.
\* onNonzero holds the entry recorded for a non-zero exit and is empty when the
\* exit status is not looked at; onOk holds the entry recorded on success and
\* is empty when the next invocation follows.
BulkStep(at, cmd, timeout, onNonzero, onOk, next) ==
  /\ op = "bulk"
  /\ pc = at
  /\ \E outcome \in GitOutcomes(timeout, CanExitZero(cmd, local_tag, remote[loc.repo_name]), healthy),
        fetched \in {FALSE, remote[loc.repo_name]} :
       /\ proc' = Proc(cmd, outcome, IF outcome = "nonzero" THEN BulkStderr(cmd) ELSE "", <<>>)
       /\ log' = Logged(log, idx, cmd, outcome)
       /\ remote' = [remote EXCEPT ![loc.repo_name] = RemoteAfter(cmd, outcome, @)]
       /\ local_tag' = LocalAfter(cmd, outcome, local_tag, fetched)
       /\ CASE outcome = "blocks" -> pc' = "blocked" /\ UNCHANGED <<results, pending>>
            [] outcome = "timeout" ->
                 /\ results' = RecordTimeout(results, loc.repo_name)
                 /\ pending' = FellThrough
                 /\ pc' = "finally"
            [] outcome = "error" ->
                 /\ results' = RecordException(results, loc.repo_name, GitMissing)
                 /\ pending' = FellThrough
                 /\ pc' = "finally"
            [] outcome = "nonzero" /\ onNonzero # <<>> ->
                 /\ results' = Record(results, onNonzero[1])
                 /\ pending' = Continued
                 /\ pc' = "finally"
            [] outcome = "ok" /\ onOk # <<>> ->
                 /\ results' = Record(results, onOk[1])
                 /\ pending' = FellThrough
                 /\ pc' = "finally"
            [] OTHER -> pc' = next /\ UNCHANGED <<results, pending>>
  /\ UNCHANGED <<op, config, req, loc, res, idx, temp_dir, workspaces, responses, healthy, cachevars>>

\* git clone --depth 1 --single-branch --branch branch_name, timeout=60
bulk_tag_repos_clone ==
  BulkStep("clone", "clone", <<BulkCloneTimeout>>,
           <<CloneFailedEntry(loc.repo_name, req.branch, BulkStderr("clone"))>>, <<>>, "tag -d")

\* git tag -d tag_name: no timeout, exit status not looked at
bulk_tag_repos_delete_local ==
  BulkStep("tag -d", "tag -d", NoTimeout, <<>>, <<>>, "push --delete")

\* git push --delete origin tag_name: no timeout, exit status not looked at
bulk_tag_repos_delete_remote ==
  BulkStep("push --delete", "push --delete", NoTimeout, <<>>, <<>>, "tag")

\* Faulty variant: the exit status of git tag is not looked at
bulk_tag_repos_tag_unchecked ==
  BulkStep("tag", "tag", NoTimeout, <<>>, <<>>, "push")

\* git tag tag_name HEAD: no timeout
bulk_tag_repos_tag ==
  BulkStep("tag", "tag", NoTimeout,
           <<TagFailedEntry(loc.repo_name, BulkStderr("tag"))>>, <<>>, "push")

\* git push origin tag_name, timeout=30
bulk_tag_repos_push ==
  BulkStep("push", "push", <<PushTimeout>>,
           <<PushFailedEntry(loc.repo_name, BulkStderr("push"))>>,
           <<SuccessEntry(loc.repo_name, req.branch, req.tag)>>, "finally")

\* finally: shutil.rmtree(temp_dir, ignore_errors=True), then the next repo_info
bulk_tag_repos_finally ==
  /\ op = "bulk"
  /\ pc = "finally"
  /\ workspaces' = Rmtree(workspaces, temp_dir)
  /\ pending' = NoPending
  /\ idx' = idx + 1
  /\ pc' = "loop"
  /\ local_tag' = FALSE
  /\ UNCHANGED <<op, config, req, loc, res, results, temp_dir, proc, log, responses>>
  /\ UNCHANGED <<remote, healthy, cachevars>>

\* The handler has returned: its locals are gone and serve_forever waits for
\* the next request
serve_forever ==
  /\ pc = "done"
  /\ op' = "none"
  /\ pc' = "idle"
  /\ config' = NoConfig
  /\ req' = NoReq
  /\ loc' = NoLoc
  /\ res' = NoRes
  /\ idx' = 0
  /\ results' = <<>>
  /\ temp_dir' = 0
  /\ proc' = NoProc
  /\ log' = <<>>
  /\ pending' = NoPending
  /\ responses' = <<>>
  /\ UNCHANGED <<workspaces, remote, local_tag, healthy, cachevars>>

Next ==
  \/ serve_forever
  \/ do_GET
  \/ do_POST
  \/ fetch_repo_branches_parse
  \/ fetch_repo_branches_mkdtemp
  \/ fetch_repo_branches_ls_remote
  \/ fetch_repo_branches_finally
  \/ fetch_repo_tags_parse
  \/ fetch_repo_tags_mkdtemp
  \/ fetch_repo_tags_ls_remote
  \/ fetch_repo_tags_finally
  \/ fetch_repo_commits_parse
  \/ fetch_repo_commits_mkdtemp
  \/ fetch_repo_commits_clone
  \/ fetch_repo_commits_log
  \/ fetch_repo_commits_finally
  \/ bulk_tag_repos_parse
  \/ bulk_tag_repos_next_repo
  \/ bulk_tag_repos_mkdtemp
  \/ bulk_tag_repos_clone
  \/ bulk_tag_repos_delete_local
  \/ bulk_tag_repos_delete_remote
  \/ bulk_tag_repos_tag
  \/ bulk_tag_repos_push
  \/ bulk_tag_repos_finally

Spec == Init /\ [][Next]_vars

\* ------------------------------------------------------------------------
\* get_config and the configuration files
\* ------------------------------------------------------------------------
\* The record of one call: what it decided, the file and mtime it looked at, what
\* it returned, and the cache as it found it
Called(kind, config_file, current_mtime, returned) ==
  call' = [kind |-> kind,
           after |-> IF call.touched THEN "none" ELSE call.kind,
           returned |-> returned,
           before |-> Cache,
           file |-> config_file,
           mtime |-> current_mtime,
           touched |-> FALSE]

\* One call of the class method, start to return; the server handles one request
\* at a time, so no other call interleaves
get_config ==
  /\ LET config_file == ChosenFile(files) IN
       IF ~files[config_file].exists
       THEN /\ Called("missing", config_file, 0, None)
            /\ UNCHANGED <<_config_cache, _config_mtime, _config_file, last_loaded>>
       ELSE
         LET current_mtime == files[config_file].mtime IN
           IF ReloadNeeded(Cache, config_file, current_mtime)
           THEN \E readable \in BOOLEAN :
                  LET content == files[config_file].content
                      parsed == IF ~readable THEN ParseError
                                ELSE IF config_file = "config.json5" THEN parse_json5(content)
                                ELSE json_loads(content)
                  IN IF parsed = ParseError
                     THEN /\ Called("failed", config_file, current_mtime, None)
                          /\ UNCHANGED <<_config_cache, _config_mtime, _config_file, last_loaded>>
                     ELSE /\ _config_cache' = parsed
                          /\ _config_mtime' = current_mtime
                          /\ _config_file' = config_file
                          /\ IF SummaryRaises(parsed)
                             THEN /\ Called("failed", config_file, current_mtime, None)
                                  /\ UNCHANGED last_loaded
                             ELSE /\ Called("ok", config_file, current_mtime, parsed)
                                  /\ last_loaded' = parsed
           ELSE /\ Called("cached", config_file, current_mtime, _config_cache)
                /\ UNCHANGED <<_config_cache, _config_mtime, _config_file, last_loaded>>
  /\ UNCHANGED <<files, handlervars>>

\* Somebody saves a configuration file: any of the texts, with any modification time
WriteFile ==
  /\ \E f \in ConfigFiles, content \in ConfigTexts, mtime \in 1..MaxMtime :
       files' = [files EXCEPT ![f] = [exists |-> TRUE, mtime |-> mtime, content |-> content]]
  /\ call' = [call EXCEPT !.touched = TRUE]
  /\ UNCHANGED <<_config_cache, _config_mtime, _config_file, last_loaded, handlervars>>

\* Somebody deletes a configuration file
RemoveFile ==
  /\ \E f \in ConfigFiles :
       /\ files[f].exists
       /\ files' = [files EXCEPT ![f] = Absent]
  /\ call' = [call EXCEPT !.touched = TRUE]
  /\ UNCHANGED <<_config_cache, _config_mtime, _config_file, last_loaded, handlervars>>

\* The server has started, no request is in progress, nothing is loaded
InitConfig ==
  /\ Init
  /\ healthy

NextConfig ==
  \/ get_config
  \/ WriteFile
  \/ RemoveFile

SpecConfig == InitConfig /\ [][NextConfig]_vars

\* ------------------------------------------------------------------------
\* Resolver claims (checked under SpecResolve)
\* ------------------------------------------------------------------------
\* The branch of the if/else chain a base URL takes: the full-Git-URL test reads
\* base_url, the visualstudio.com test reads base_url_clean
Dialect(base_url) ==
  IF IsFullGitUrl(base_url) THEN "direct"
  ELSE IF Contains(StripScheme(base_url), S_visualstudio) THEN "legacy"
  ELSE "org"

\* The dialects as section 4.1 words them, all three tests on the effective base URL
SpecDirect(b) == Contains(b, S_dotgit) \/ Contains(b, S_github) \/ Contains(b, S_gitlab)
SpecLegacy(b) == ~SpecDirect(b) /\ Contains(b, S_visualstudio)
SpecOrgScoped(b) == ~SpecDirect(b) /\ ~Contains(b, S_visualstudio)

\* The credential-prefix rule of section 4.1, credentials percent-encoded
ClaimPrefix(u, t) ==
  IF t # <<>>
  THEN (IF u # <<>> THEN Quote(u) \o <<":">> \o Quote(t) \o <<"@">> ELSE Quote(t) \o <<"@">>)
  ELSE (IF u # <<>> THEN Quote(u) \o <<"@">> ELSE <<>>)

\* The rule the code follows: as ClaimPrefix, but the organization-scoped
\* dialect falls back to `{organization}@` when there are no credentials
AmendedPrefix(d, org, u, t) ==
  IF d = "org" /\ ClaimPrefix(u, t) = <<>> THEN org \o <<"@">> ELSE ClaimPrefix(u, t)

\* host and path of each dialect's template
HostPath(d, org, l) ==
  CASE d = "direct" -> StripScheme(l.base_url)
    [] d = "legacy" -> StripScheme(l.base_url) \o <<"/">> \o l.project_name
                         \o <<"/", "_", "g", "i", "t", "/">> \o l.repo_name
    [] d = "org" -> StripScheme(l.base_url) \o <<"/">> \o org \o <<"/">> \o l.project_name
                         \o <<"/", "_", "g", "i", "t", "/">> \o l.repo_name

\* url embeds exactly the credential prefix p in front of hostpath; with no
\* prefix the direct dialect hands back the base URL untouched
EmbedsPrefix(url, p, d, hostpath, base_url) ==
  IF p = <<>> /\ d = "direct" THEN url = base_url
  ELSE url = S_https \o p \o hostpath

\* C7: resolution fails with 'organization required' if and only if the
\* selected dialect is organization-scoped and the organization is empty;
\* it fails when organization and credentials are all empty under that
\* dialect and never fails under the direct-URL or legacy dialect.
C7_OrgRequiredIff ==
  pc = "resolved" =>
    LET d == Dialect(loc.base_url) IN
    /\ (~res.ok) <=> (d = "org" /\ config.organization = <<>>)
    /\ (d = "org" /\ config.organization = <<>> /\ config.gitUsername = <<>>
          /\ config.gitToken = <<>>) => ~res.ok
    /\ d \in {"direct", "legacy"} => res.ok

\* C7 witness: the organization is empty, credentials are configured, the
\* dialect is organization-scoped, and the resolver failed.
C7_Witness ==
  /\ pc = "resolved"
  /\ Dialect(loc.base_url) = "org"
  /\ config.organization = <<>>
  /\ config.gitToken # <<>>
  /\ ~res.ok

\* C8 as stated: in all three dialects the prefix is username:token@, token@,
\* username@ or, with neither, empty.
C8_PrefixAsStated ==
  (pc = "resolved" /\ res.ok) =>
    LET d == Dialect(loc.base_url) IN
    EmbedsPrefix(res.url, ClaimPrefix(config.gitUsername, config.gitToken), d,
                 HostPath(d, config.organization, loc), loc.base_url)

\* C8 amended: the prefix is (percent-encoded) username:token@, token@ or
\* username@; with neither it is empty in the direct-URL and legacy dialects
\* and `{organization}@` in the organization-scoped dialect.
C8_PrefixAmended ==
  (pc = "resolved" /\ res.ok) =>
    LET d == Dialect(loc.base_url) IN
    EmbedsPrefix(res.url,
                 AmendedPrefix(d, config.organization, config.gitUsername, config.gitToken), d,
                 HostPath(d, config.organization, loc), loc.base_url)

\* C8 witness: organization-scoped dialect, no username, no token, and the URL
\* carries the organization as its userinfo.
C8_Witness ==
  /\ pc = "resolved"
  /\ res.ok
  /\ Dialect(loc.base_url) = "org"
  /\ config.gitUsername = <<>>
  /\ config.gitToken = <<>>
  /\ SubSeq(res.url, 1, Len(S_https) + Len(config.organization) + 1)
       = S_https \o config.organization \o <<"@">>

\* C9: under the direct-URL dialect the resolver succeeds, takes the direct
\* branch and yields the same URL for every value of the organization.
C9_DirectIgnoresOrganization ==
  (pc = "resolved" /\ SpecDirect(loc.base_url)) =>
    /\ res.ok
    /\ res.branch = "direct"
    /\ \A o \in Orgs : ApplyTo(loc, [config EXCEPT !.organization = o], op) = res

\* C9 witness: a direct-URL resolution with an empty organization and no
\* credentials succeeded.
C9_Witness ==
  /\ pc = "resolved"
  /\ SpecDirect(loc.base_url)
  /\ config.organization = <<>>
  /\ config.gitUsername = <<>>
  /\ config.gitToken = <<>>
  /\ res.ok

\* 'https://u:t@dev.azure.com/acme/core/_git/svc-a'
X_example == <<"h", "t", "t", "p", "s", ":", "/", "/", "u", ":", "t", "@", "d", "e", "v", ".", "a", "z", "u", "r", "e", ".", "c", "o", "m", "/", "a", "c", "m", "e", "/", "c", "o", "r", "e", "/", "_", "g", "i", "t", "/", "s", "v", "c", "-", "a">>

\* the inputs of the scenario of section 8
IsExample ==
  /\ config.organization = N_acme
  /\ loc.base_url = U_devazure
  /\ config.gitUsername = N_u
  /\ config.gitToken = N_t
  /\ loc.repo_name = N_svca
  /\ loc.project_name = N_core

\* the base URL the resolver works on is the override if supplied, else the
\* configured default
OnEffectiveBaseUrl ==
  loc.base_url = (IF req.hasBaseUrl THEN req.baseUrl
                  ELSE IF config.hasBaseUrl THEN config.baseUrl ELSE U_devazure)

\* C10 as stated: priority direct, legacy, organization-scoped, all tested on
\* the effective base URL; the URL is the dialect's template with the
\* credential prefix of the prefix rule.
C10_TemplatesAsStated ==
  pc = "resolved" =>
    LET b == loc.base_url
        cred == ClaimPrefix(config.gitUsername, config.gitToken)
    IN /\ OnEffectiveBaseUrl
       /\ SpecDirect(b) => (res.ok /\ res.branch = "direct")
       /\ SpecLegacy(b) =>
            (res.ok /\ res.url = S_https \o cred \o HostPath("legacy", config.organization, loc))
       /\ (SpecOrgScoped(b) /\ config.organization # <<>>) =>
            (res.ok /\ res.url = S_https \o cred \o HostPath("org", config.organization, loc))
       /\ IsExample => res.url = X_example

\* C10 amended: priority direct, legacy, organization-scoped; the legacy test
\* reads the base URL with its scheme removed; the URL is the dialect's
\* template, where {credentials} of the organization-scoped template is
\* `{organization}@` when neither username nor token is configured.
C10_TemplatesAmended ==
  pc = "resolved" =>
    LET b == loc.base_url
        legacy == ~SpecDirect(b) /\ Contains(StripScheme(b), S_visualstudio)
        orgscoped == ~SpecDirect(b) /\ ~Contains(StripScheme(b), S_visualstudio)
        cred == ClaimPrefix(config.gitUsername, config.gitToken)
    IN /\ OnEffectiveBaseUrl
       /\ SpecDirect(b) => (res.ok /\ res.branch = "direct")
       /\ legacy =>
            (res.ok /\ res.url = S_https \o cred \o HostPath("legacy", config.organization, loc))
       /\ (orgscoped /\ config.organization # <<>>) =>
            (res.ok /\ res.url = S_https
                                  \o AmendedPrefix("org", config.organization,
                                                   config.gitUsername, config.gitToken)
                                  \o HostPath("org", config.organization, loc))
       /\ IsExample => res.url = X_example

\* C10 witness: the scenario of section 8 was resolved, through an override.
C10_Witness ==
  /\ pc = "resolved"
  /\ IsExample
  /\ req.hasBaseUrl
  /\ res.url = X_example

\* ------------------------------------------------------------------------
\* Handler claims (checked under Spec)
\* ------------------------------------------------------------------------
Last(q) == q[Len(q)]

\* the bulk-tag request got past its parameter and config checks
LoopEntered == op = "bulk" /\ idx >= 1

\* C1: the results of a bulk-tag call hold one entry per target, entry i
\* naming target i: while the loop runs results covers exactly the targets
\* already left behind, and the results that are returned cover them all.
C1_ResultsMatchTargets ==
  op = "bulk" =>
    /\ Len(results) <= Len(req.targets)
    /\ \A i \in 1..Len(results) : results[i].repo = req.targets[i].repo
    /\ pc = "loop" => Len(results) = idx - 1
    /\ (responses # <<>> /\ Last(responses).status = 200) =>
         /\ Last(responses).body.results = results
         /\ Len(results) = Len(req.targets)

\* C1 witness: a returned result of two entries, the first a failure raised
\* as an exception, the second a success.
C1_Witness ==
  /\ op = "bulk"
  /\ pc = "done"
  /\ Last(responses).status = 200
  /\ Len(Last(responses).body.results) = 2
  /\ Last(responses).body.results[1] = ExceptionEntry(req.targets[1].repo, GitMissing)
  /\ Last(responses).body.results[2].success

\* C2: the batch never aborts early: when a target has ended in a failure,
\* the call still ends with an outcome recorded for every target, the later
\* ones included, and returns them.
C2_NeverAbortsEarly ==
  (LoopEntered /\ pc = "done") =>
    \A i \in 1..Len(results) : ~results[i].success =>
      /\ Len(results) = Len(req.targets)
      /\ responses = <<SendJson([results |-> results])>>

\* C3: a bulk-tag call whose config loaded fails as a whole only when branch,
\* tag or the target list is missing.
C3_OnlyMissingParametersFailTheCall ==
  (op = "bulk" /\ pc = "done" /\ config.loaded /\ Last(responses).status # 200) =>
    (req.branch = "" \/ req.tag = "" \/ req.targets = <<>>)

C5_ReadFailureIsPayload ==
  (op \in {"branches", "tags", "commits"} /\ proc.outcome = "nonzero") =>
    /\ pc \in {"finally", "done"}
    /\ Len(responses) = 1
    /\ responses[1].status = 200
    /\ responses[1].body =
         (CASE op = "branches" -> [branches |-> <<>>, error |-> proc.stderr]
            [] op = "tags" -> [tags |-> <<>>, error |-> proc.stderr]
            [] op = "commits" -> [commits |-> <<>>, error |-> proc.stderr])

\* C5 witness: git log of a commits request exited non-zero and the request
\* has returned.
C5_Witness ==
  /\ op = "commits"
  /\ pc = "done"
  /\ proc.cmd = "log"
  /\ proc.outcome = "nonzero"
  /\ proc.stderr = "fatal: Authentication failed"

\* an entry of the form a failed git command is recorded in
IsFailurePayload(entry) == DOMAIN entry = {"repo", "success", "error"} /\ ~entry.success

TimedOut(k) == log[k].outcome = "timeout"

\* C6 as stated: a timeout is reported by the distinct 504 signal in the read
\* operations and is never recorded in a bulk-tag entry of the form of a
\* command failure.
C6_TimeoutNeverPayload ==
  \A k \in 1..Len(log) : TimedOut(k) =>
    IF op = "bulk"
    THEN ~IsFailurePayload(results[log[k].target])
    ELSE pc = "done" => responses = <<SendError(504, "Git operation timed out")>>

\* C6 amended: in the read operations a timeout ends the request with the
\* 504 response alone; in bulk-tag it ends the current target only, no further
\* git step runs for that target, and the target's entry is success:false with
\* the error text 'Operation timed out', which no other outcome produces.
C6_TimeoutAmended ==
  /\ \A k \in 1..Len(log) : TimedOut(k) =>
       IF op = "bulk"
       THEN /\ results[log[k].target] =
                 [repo |-> req.targets[log[k].target].repo, success |-> FALSE,
                  error |-> <<"Operation timed out">>]
            /\ \A j \in (k + 1)..Len(log) : log[j].target # log[k].target
       ELSE /\ k = Len(log)
            /\ pc \in {"finally", "done"}
            /\ pc = "finally" => responses = <<>>
            /\ pc = "done" => responses = <<SendError(504, "Git operation timed out")>>
  /\ op = "bulk" =>
       \A i \in 1..Len(results) :
         (~results[i].success /\ results[i].error = <<"Operation timed out">>) =>
           \E k \in 1..Len(log) : log[k].target = i /\ TimedOut(k)
  /\ (op # "bulk" /\ responses # <<>> /\ Last(responses).status = 504) =>
       (log # <<>> /\ TimedOut(Len(log)))

\* C6 witness: a bulk-tag call returned 200 with the first target recorded as
\* timed out at push and the second target tagged.
C6_Witness ==
  /\ op = "bulk"
  /\ pc = "done"
  /\ Len(log) >= 5
  /\ log[5] = [target |-> 1, cmd |-> "push", outcome |-> "timeout"]
  /\ responses = <<SendJson([results |-> results])>>
  /\ Len(results) = 2
  /\ results[1] = TimeoutEntry(req.targets[1].repo)
  /\ results[2].success

\* every target of the request resolves to a URL under the request's config
AllResolved ==
  \A i \in 1..Len(req.targets) : ApplyTo(Locals(req.targets[i], config), config, "bulk").ok

\* the git invocations logged for target i, in order
RECURSIVE StepsOf(_, _)
StepsOf(l, i) ==
  IF l = <<>> THEN <<>>
  ELSE (IF Head(l).target = i THEN <<[cmd |-> Head(l).cmd, outcome |-> Head(l).outcome]>> ELSE <<>>)
         \o StepsOf(Tail(l), i)

Ran(i, cmd, outcome) ==
  \E k \in 1..Len(log) : log[k] = [target |-> i, cmd |-> cmd, outcome |-> outcome]

FirstSeven(hash) == SubSeq(hash, 1, IF Len(hash) < 7 THEN Len(hash) ELSE 7)

\* C12: in every entry of a branches, tags or commits response the short hash
\* is the first seven characters of the full hash of the same entry.
C12_ShortHashIsFirstSeven ==
  \A k \in 1..Len(responses) :
    LET body == responses[k].body IN
    /\ "branches" \in DOMAIN body =>
         \A i \in 1..Len(body.branches) :
           body.branches[i].shortCommit = FirstSeven(body.branches[i].commit)
    /\ "tags" \in DOMAIN body =>
         \A i \in 1..Len(body.tags) :
           body.tags[i].shortCommit = FirstSeven(body.tags[i].commit)
    /\ "commits" \in DOMAIN body =>
         \A i \in 1..Len(body.commits) :
           body.commits[i].shortHash = FirstSeven(body.commits[i].hash)

ReadOps == {"branches", "tags", "commits"}

\* C13: a read request without the repo parameter, or whose URL needs an
\* organization the config does not give, is answered by one 4xx response and
\* nothing else: the handler ends there, no workspace was allocated and no git
\* subprocess was started.
C13_ParameterAndConfigErrorsAbortFirst ==
  (/\ op \in ReadOps
   /\ pc # "parse"
   /\ \/ ~req.hasRepo
      \/ config.loaded /\ ~ApplyTo(Locals(req, config), config, op).ok) =>
    /\ pc = "done"
    /\ Len(responses) = 1
    /\ responses[1].status \in 400..499
    /\ temp_dir = 0
    /\ workspaces = {}
    /\ log = <<>>
    /\ proc = NoProc

\* C13 witness: a tags request for an organization-scoped URL, with no
\* organization configured, has ended with the 400 response.
C13_Witness ==
  /\ op = "tags"
  /\ pc = "done"
  /\ req.hasRepo
  /\ config.loaded
  /\ res = OrgRequired
  /\ responses = <<SendError(400, "organization required for dev.azure.com URLs")>>
  /\ temp_dir = 0
  /\ log = <<>>

\* C14: every git invocation runs under a timeout, so no request is ever left
\* waiting on a git subprocess that does not exit: each invocation ends in an
\* exit status, a timeout or an exception, and the handler goes on to its
\* response.
C14_EveryInvocationBounded ==
  /\ pc # "blocked"
  /\ \A k \in 1..Len(log) : log[k].outcome \in {"ok", "nonzero", "timeout", "error"}

StepOrder == <<"clone", "tag -d", "push --delete", "tag", "push">>

Exited(step) == step.outcome \in {"ok", "nonzero"}

\* C15: the git steps of one target run in the order clone, delete local tag,
\* delete remote tag, create tag, push tag, each at most once and each only
\* after the one before it has exited, and the targets one after the other;
\* nothing follows a clone that did not exit zero, push follows only a tag
\* creation that exited zero, and a success entry is recorded only after
\* clone, create and push all exited zero.
C15_StepsInOrder ==
  op = "bulk" =>
    /\ \A k \in 2..Len(log) : log[k - 1].target <= log[k].target
    /\ \A i \in 1..Len(req.targets) :
         LET steps == StepsOf(log, i) IN
         /\ Len(steps) <= Len(StepOrder)
         /\ \A k \in 1..Len(steps) : steps[k].cmd = StepOrder[k]
         /\ \A k \in 2..Len(steps) : Exited(steps[k - 1])
         /\ Len(steps) >= 2 => steps[1].outcome = "ok"
         /\ Len(steps) = 5 => steps[4].outcome = "ok"
         /\ (i <= Len(results) /\ results[i].success) =>
              /\ Len(steps) = 5
              /\ steps[1].outcome = "ok"
              /\ steps[4].outcome = "ok"
              /\ steps[5].outcome = "ok"

\* C15 witness: the first target went through all five steps in order, both
\* deletes exiting non-zero, and its success entry has just been recorded.
C15_Witness ==
  /\ op = "bulk"
  /\ pc = "finally"
  /\ idx = 1
  /\ StepsOf(log, 1) = <<[cmd |-> "clone", outcome |-> "ok"],
                         [cmd |-> "tag -d", outcome |-> "nonzero"],
                         [cmd |-> "push --delete", outcome |-> "nonzero"],
                         [cmd |-> "tag", outcome |-> "ok"],
                         [cmd |-> "push", outcome |-> "ok"]>>
  /\ results = <<SuccessEntry(loc.repo_name, req.branch, req.tag)>>

\* the entry that the clone, tag creation and push of a target call for, the
\* clone having exited zero
EntryFor(repo_name, create, push) ==
  CASE create.outcome = "nonzero" -> TagFailedEntry(repo_name, BulkStderr("tag"))
    [] create.outcome = "error" -> ExceptionEntry(repo_name, GitMissing)
    [] push.outcome = "nonzero" -> PushFailedEntry(repo_name, BulkStderr("push"))
    [] push.outcome = "timeout" -> TimeoutEntry(repo_name)
    [] push.outcome = "error" -> ExceptionEntry(repo_name, GitMissing)
    [] OTHER -> SuccessEntry(repo_name, req.branch, req.tag)

\* C16: the local and the remote tag delete never abort a target and never
\* make it fail: for every recorded target whose clone exited zero, whatever
\* the two deletes ended in, tag creation was attempted, push was attempted
\* if creation exited zero, and the recorded entry is the one that clone,
\* creation and push call for.
C16_DeletesNeverAbort ==
  op = "bulk" =>
    \A i \in 1..Len(results) :
      LET steps == StepsOf(log, i) IN
      (Len(steps) >= 2 /\ steps[1].outcome = "ok") =>
        /\ Len(steps) >= 4
        /\ steps[4].outcome = "ok" => Len(steps) = 5
        /\ results[i] = EntryFor(req.targets[i].repo, steps[4],
                                 IF Len(steps) = 5 THEN steps[5] ELSE steps[4])

\* the records of a log output: the texts the sentinel delimits
RecordsOf(stdout) == Split(stdout, S_commitend)

\* the newline-separated fields of a record, without the newline that git
\* puts between one commit's output and the next
FieldsOf(record) ==
  Split(IF record # <<>> /\ Head(record) = "\n" THEN Tail(record) ELSE record, S_newline)

\* the fields of the records that have at least six of them, in order
AcceptedRecords(stdout) ==
  LET records == RecordsOf(stdout)
      kept == SelectSeq(records, LAMBDA r : Len(FieldsOf(r)) >= 6)
  IN [i \in 1..Len(kept) |-> FieldsOf(kept[i])]

\* C17: the commits of a 200 response to a log that exited zero are, in
\* order, one entry for each record of the output that has at least six
\* newline-separated fields, the six fields being hash, short hash, author,
\* email, timestamp and subject and the remaining lines, joined with
\* newlines, the body (compared without surrounding whitespace).
C17_RecordsBecomeEntries ==
  (op = "commits" /\ proc.cmd = "log" /\ proc.outcome = "ok" /\ responses # <<>>
     /\ Last(responses).status = 200) =>
    LET commits == Last(responses).body.commits
        accepted == AcceptedRecords(proc.stdout)
    IN /\ Len(commits) = Len(accepted)
       /\ \A i \in 1..Len(commits) :
            LET fields == accepted[i] IN
            /\ commits[i].hash = fields[1]
            /\ commits[i].shortHash = fields[2]
            /\ commits[i].author = fields[3]
            /\ commits[i].email = fields[4]
            /\ commits[i].timestamp = IntOf(fields[5])
            /\ commits[i].subject = fields[6]
            /\ commits[i].body = Strip(Join(SubSeq(fields, 7, Len(fields)), S_newline))

Copies == {"branches", "commits", "tags", "bulk"}

\* C18: the four copies of the resolver agree and nothing but their inputs
\* enters the result: what one handler's copy resolved from the config and
\* the request's repo, project and base-URL override is what each of the four
\* copies gives for them, the same URL or the organization-required error.
C18_CopiesAgree ==
  pc = "resolved" =>
    \A which \in Copies : ApplyTo(Locals(req, config), config, which) = res

\* C18 witness: the bulk-tag copy resolved an organization-scoped URL with
\* the credentials of the config embedded.
C18_Witness ==
  /\ pc = "resolved"
  /\ op = "bulk"
  /\ config.gitUsername = N_mail
  /\ config.gitToken = N_pw
  /\ res.ok
  /\ res.branch = "org"
  /\ res = ResolveBranches(config.organization, config.gitUsername, config.gitToken,
                           loc.repo_name, loc.project_name, loc.base_url)

\* the current target's git steps have ended in a failure of tag creation or
\* of push, after its remote delete exited zero
FailedAfterRemoteDelete ==
  /\ op = "bulk"
  /\ pc = "finally"
  /\ Ran(idx, "push --delete", "ok")
  /\ Last(log).target = idx
  /\ Last(log).cmd \in {"tag", "push"}
  /\ Last(log).outcome \in {"nonzero", "timeout", "error"}

C20_ExactlyOneResponse ==
  op \in ReadOps =>
    /\ Len(responses) <= 1
    /\ pc = "done" => (Len(responses) = 1 /\ responses[1].status \in {200, 400, 500, 504})
    /\ \A k \in 2..Len(responses) : responses[k - 1].status # 200

\* C20 witness: a branches request whose ls-remote output could not be
\* parsed has ended with the 500 response alone.
C20_Witness ==
  /\ op = "branches"
  /\ pc = "done"
  /\ proc.outcome = "ok"
  /\ proc.stdout = O_headsodd
  /\ responses = <<ExceptionResponse("list index out of range")>>

\* ------------------------------------------------------------------------
\* Configuration cache claim (checked under SpecConfig)
\* ------------------------------------------------------------------------
\* The latest call loaded the file, whether the load went through or not
Loaded == call.kind \in {"ok", "failed"}

\* C21: the config cache (value, file name, last-seen mtime) is updated only by a
\* successful load. A call for an existing file loads it exactly when the cache was
\* empty, the chosen file differed from the cached file name or its mtime was greater
\* than the last-seen one, and otherwise returns the cached value; a load that fails
\* returns None and leaves the three fields as they were, so that a call made right
\* after a failed one, with the files untouched, loads again; and a result other
\* than None is always the value parsed by the latest successful load.
C21_CacheFollowsSuccessfulLoads ==
  call.kind # "none" =>
    /\ call.kind # "missing" =>
         (Loaded <=> ReloadNeeded(call.before, call.file, call.mtime))
    /\ call.kind = "cached" => call.returned = call.before.value
    /\ call.kind \in {"failed", "missing"} => call.returned = None
    /\ call.kind # "ok" => Cache = call.before
    /\ call.kind = "ok" =>
         /\ Cache = [value |-> call.returned, mtime |-> call.mtime, file |-> call.file]
         /\ call.returned = last_loaded
    /\ (call.after = "failed" /\ call.kind # "missing") => Loaded
    /\ call.returned # None => call.returned = last_loaded

====
